---- MODULE Spec2Model ----
(***************************************************************************)
(* GSC Page Group Analysis (src/app.py): a Streamlit script that loads a   *)
(* CSV export, derives comparison windows from a test window, splits the   *)
(* rows into a test and a control cohort by regex, filters the cohorts by  *)
(* date, sums clicks and impressions, computes differences and Welch       *)
(* p-values and writes a summary.                                          *)
(*                                                                         *)
(* Representation.  A date is its proleptic Gregorian ordinal (what        *)
(* datetime.date.toordinal returns), so date - timedelta(days=n) is        *)
(* integer subtraction and a calendar date is converted with ymd2ord.      *)
(* A CSV cell that does not parse is BadCell; the coerced columns hold NaT *)
(* (dates) or NaN (numbers) there.  A page identifier and a pattern are    *)
(* sequences of one-character strings; an empty CSV cell is read as a      *)
(* null page, NullPage.  Python's None for a relative difference is the    *)
(* record NoneDiff.  An exception ends the script run and is recorded in   *)
(* analysis.exception.                                                     *)
(***************************************************************************)
EXTENDS Integers, Sequences, FiniteSets, TLC

VARIABLES uploaded_file, data, messages, test_regex, control_regex,
          test_start, test_end, periods, analysis, call

vars == <<uploaded_file, data, messages, test_regex, control_regex,
          test_start, test_end, periods, analysis, call>>

app_vars == <<uploaded_file, data, messages, test_regex, control_regex,
              test_start, test_end, periods, analysis>>

-----------------------------------------------------------------------------
(* Bounds of the model                                                     *)

MaxRows == 2
MaxClicks == 1
MaxSpan == 9
MaxTotal == 9
MaxSample == 3
MaxDays == 3

-----------------------------------------------------------------------------
(* Calendar: datetime.date as ordinals                                     *)

is_leap(y) == (y % 4 = 0) /\ ((y % 100 # 0) \/ (y % 400 = 0))

days_before_year(y) ==
    (y - 1) * 365 + ((y - 1) \div 4) - ((y - 1) \div 100) + ((y - 1) \div 400)

days_in_month(y, m) ==
    IF m = 2 THEN (IF is_leap(y) THEN 29 ELSE 28)
    ELSE IF m \in {4, 6, 9, 11} THEN 30 ELSE 31

RECURSIVE days_before_month(_, _)
days_before_month(y, m) ==
    IF m = 1 THEN 0 ELSE days_before_month(y, m - 1) + days_in_month(y, m - 1)

ymd2ord(y, m, d) == days_before_year(y) + days_before_month(y, m) + d

-----------------------------------------------------------------------------
(* Period derivation, lines 87-96                                          *)

YearShift == 365

NoPeriods ==
    [derived |-> FALSE, pre_test_start |-> 0, pre_test_end |-> 0,
     prev_year_test_start |-> 0, prev_year_test_end |-> 0]

derive_periods_gap(start, end) ==
    LET test_period_length == end - start
        pre_test_end == start
    IN [derived |-> TRUE,
        pre_test_start |-> pre_test_end - test_period_length,
        pre_test_end |-> pre_test_end,
        prev_year_test_start |-> start - YearShift,
        prev_year_test_end |-> end - YearShift]

derive_periods_leap(start, end) ==
    LET test_period_length == end - start
        pre_test_end == start - 1
    IN [derived |-> TRUE,
        pre_test_start |-> pre_test_end - test_period_length,
        pre_test_end |-> pre_test_end,
        prev_year_test_start |-> start - (YearShift + 1),
        prev_year_test_end |-> end - (YearShift + 1)]

derive_periods(start, end) ==
    LET test_period_length == end - start
        pre_test_end == start - 1
    IN [derived |-> TRUE,
        pre_test_start |-> pre_test_end - test_period_length,
        pre_test_end |-> pre_test_end,
        prev_year_test_start |-> start - YearShift,
        prev_year_test_end |-> end - YearShift]

-----------------------------------------------------------------------------
(* Cell values                                                             *)

BadCell == -1
NaT == 0
NaN == -1
NullPage == <<>>

(* pd.to_datetime(..., format='%Y-%m-%d', errors='coerce'), line 67        *)
to_datetime(cell) == IF cell = BadCell THEN NaT ELSE cell

(* pd.to_numeric(..., errors='coerce'), lines 75-76                        *)
to_numeric(cell) == IF cell = BadCell THEN NaN ELSE cell

-----------------------------------------------------------------------------
(* Loader, lines 58-76                                                     *)

NoFile == [present |-> FALSE, hasDate |-> FALSE, rows |-> <<>>]

NoData == [loaded |-> FALSE, hasDate |-> FALSE, numeric |-> FALSE, rows |-> <<>>]

read_csv(file) ==
    [loaded |-> TRUE, hasDate |-> file.hasDate, numeric |-> FALSE,
     rows |-> [i \in 1..Len(file.rows) |->
                 [idx |-> i, Date |-> file.rows[i].Date, page |-> file.rows[i].page,
                  clicks |-> file.rows[i].clicks,
                  impressions |-> file.rows[i].impressions]]]

convert_dates(frame) ==
    IF ~frame.hasDate THEN frame
    ELSE [frame EXCEPT !.rows =
            [i \in 1..Len(frame.rows) |->
               [frame.rows[i] EXCEPT !.Date = to_datetime(frame.rows[i].Date)]]]

convert_numeric(frame) ==
    [frame EXCEPT !.numeric = TRUE, !.rows =
       [i \in 1..Len(frame.rows) |->
          [frame.rows[i] EXCEPT !.clicks = to_numeric(frame.rows[i].clicks),
                                !.impressions = to_numeric(frame.rows[i].impressions)]]]

load(file) == convert_numeric(convert_dates(read_csv(file)))

load_messages(file) ==
    IF ~file.hasDate THEN {"error: The CSV file must contain a 'Date' column"}
    ELSE IF \E i \in 1..Len(file.rows) : to_datetime(file.rows[i].Date) = NaT
         THEN {"warning: There are invalid dates in the 'Date' column"}
         ELSE {}

-----------------------------------------------------------------------------
(* filter_by_regex, lines 31-32                                            *)

Lower(c) == IF c = "T" THEN "t" ELSE IF c = "C" THEN "c" ELSE c

(* re.compile raises re.error on an unbalanced parenthesis; "(" is the     *)
(* only metacharacter of the model's alphabet and ")" is not in it.        *)
re_valid(regex) == \A k \in 1..Len(regex) : regex[k] # "("

(* re.search(regex, page, re.IGNORECASE) for a pattern of literals         *)
re_search(regex, page) ==
    \E off \in 0..(Len(page) - Len(regex)) :
        \A k \in 1..Len(regex) : Lower(page[off + k]) = Lower(regex[k])

str_contains(page, regex) ==
    IF page = NullPage THEN FALSE ELSE re_search(regex, page)

(* .str on a column with no string in it (every page null) raises          *)
(* AttributeError; a column of an empty frame keeps dtype object.          *)
str_accessor_ok(rows) ==
    Len(rows) = 0 \/ \E i \in 1..Len(rows) : rows[i].page # NullPage

filter_by_regex(rows, regex) ==
    SelectSeq(rows, LAMBDA r : str_contains(r.page, regex))

IndexOf(rows) == {rows[i].idx : i \in 1..Len(rows)}

control_group_all(rows, test_group) == rows

(* data[~data.index.isin(test_group.index)], line 110                      *)
control_group_default(rows, test_group) ==
    SelectSeq(rows, LAMBDA r : r.idx \notin IndexOf(test_group))

-----------------------------------------------------------------------------
(* filter_by_date, lines 34-39: a comparison with NaT is False             *)

date_ge(d, bound) == d # NaT /\ d >= bound
date_le(d, bound) == d # NaT /\ d <= bound

filter_by_date_exclusive(rows, start_date, end_date) ==
    SelectSeq(rows, LAMBDA r : date_ge(r.Date, start_date) /\ r.Date # NaT
                               /\ r.Date < end_date)

filter_by_date(rows, start_date, end_date) ==
    SelectSeq(rows, LAMBDA r : date_ge(r.Date, start_date) /\ date_le(r.Date, end_date))

-----------------------------------------------------------------------------
(* Sums, lines 119-128: DataFrame.sum skips NaN                            *)

Column(rows, metric) ==
    [i \in 1..Len(rows) |->
        IF metric = "Url Clicks" THEN rows[i].clicks ELSE rows[i].impressions]

RECURSIVE nansum(_)
nansum(values) ==
    IF Len(values) = 0 THEN 0
    ELSE (IF Head(values) = NaN THEN 0 ELSE Head(values)) + nansum(Tail(values))

-----------------------------------------------------------------------------
(* calculate_differences, lines 41-44.  A relative difference is the       *)
(* fraction num/den (absolute_diff / previous * 100), or None.             *)

NoneDiff == [isNone |-> TRUE, num |-> 0, den |-> 1]

calculate_differences_unguarded(current, previous) ==
    [absolute_diff |-> current - previous,
     relative_diff |-> [isNone |-> FALSE, num |-> (current - previous) * 100,
                        den |-> previous]]

calculate_differences(current, previous) ==
    LET absolute_diff == current - previous
    IN [absolute_diff |-> absolute_diff,
        relative_diff |-> IF previous # 0
                          THEN [isNone |-> FALSE, num |-> absolute_diff * 100,
                                den |-> previous]
                          ELSE NoneDiff]

-----------------------------------------------------------------------------
(* calculate_p_value, lines 175-177: scipy.stats.ttest_ind(sample1,        *)
(* sample2, equal_var=False).  The value of a computable p-value is not    *)
(* modelled, only which kind of float comes back:                          *)
(*   "nan"  a NaN in a sample (nan_policy 'propagate'), a sample of fewer  *)
(*          than 2 values (its variance is NaN), or 0/0 when both          *)
(*          variances are 0 and the means are equal;                       *)
(*   "0.0"  both variances 0 and the means differ (statistic +-inf);       *)
(*   "p"    otherwise, a float in [0, 1].                                  *)

RECURSIVE seqsum(_)
seqsum(values) ==
    IF Len(values) = 0 THEN 0 ELSE Head(values) + seqsum(Tail(values))

has_nan(sample) == \E i \in 1..Len(sample) : sample[i] = NaN

zero_variance(sample) == \A i, j \in 1..Len(sample) : sample[i] = sample[j]

same_mean(sample1, sample2) ==
    seqsum(sample1) * Len(sample2) = seqsum(sample2) * Len(sample1)

ttest_ind(sample1, sample2) ==
    IF has_nan(sample1) \/ has_nan(sample2) THEN "nan"
    ELSE IF Len(sample1) < 2 \/ Len(sample2) < 2 THEN "nan"
    ELSE IF zero_variance(sample1) /\ zero_variance(sample2)
         THEN (IF same_mean(sample1, sample2) THEN "nan" ELSE "0.0")
         ELSE "p"

calculate_p_value(sample1, sample2) == ttest_ind(sample1, sample2)

(* f"{p_value:.5f}", lines 267-272: a NaN formats as the text nan          *)
format_p_value(p_value) ==
    IF p_value = "nan" THEN "nan"
    ELSE IF p_value = "0.0" THEN "0.00000" ELSE "0.ddddd"

-----------------------------------------------------------------------------
(* color_metric, lines 166-172: None > 0 raises TypeError                  *)

color_metric(value) ==
    IF value.isNone THEN [raised |-> TRUE, color |-> "", value |-> value]
    ELSE IF value.num > 0 THEN [raised |-> FALSE, color |-> "green", value |-> value]
    ELSE IF value.num < 0 THEN [raised |-> FALSE, color |-> "red", value |-> value]
    ELSE [raised |-> FALSE, color |-> "", value |-> value]

-----------------------------------------------------------------------------
(* The Analyze handler, lines 101-272                                      *)

Cohorts == {"test", "control"}
Metrics == {"Url Clicks", "Impressions"}
Baselines == {"pre_test", "prev_year"}
PeriodNames == {"test_period"} \cup Baselines

NoAnalysis ==
    [ran |-> FALSE, exception |-> "none", steps |-> {},
     test_group |-> <<>>, control_group |-> <<>>,
     filtered |-> [c \in Cohorts, q \in PeriodNames |-> <<>>],
     totals |-> [c \in Cohorts, m \in Metrics, q \in PeriodNames |-> 0],
     differences |-> [c \in Cohorts, m \in Metrics, b \in Baselines |->
                        [absolute_diff |-> 0, relative_diff |-> NoneDiff]],
     p_values |-> [c \in Cohorts, b \in Baselines |-> ""],
     summary |-> {}, p_display |-> {}]

Window(q, start, end, per) ==
    IF q = "test_period" THEN <<start, end>>
    ELSE IF q = "pre_test" THEN <<per.pre_test_start, per.pre_test_end>>
    ELSE <<per.prev_year_test_start, per.prev_year_test_end>>

run_analyze(frame, treg, creg, start, end, per) ==
    LET began == [NoAnalysis EXCEPT !.ran = TRUE]
    IN
    IF ~str_accessor_ok(frame.rows)
    THEN [began EXCEPT !.exception = "AttributeError"]
    ELSE IF ~re_valid(treg) THEN [began EXCEPT !.exception = "re.error"]
    ELSE
    LET test_group == filter_by_regex(frame.rows, treg)
        s1 == [began EXCEPT !.test_group = test_group, !.steps = {"test_group"}]
    IN
    IF creg # <<>> /\ ~re_valid(creg) THEN [s1 EXCEPT !.exception = "re.error"]
    ELSE
    LET control_group == IF creg # <<>> THEN filter_by_regex(frame.rows, creg)
                         ELSE control_group_default(frame.rows, test_group)
        s2 == [s1 EXCEPT !.control_group = control_group,
                         !.steps = @ \cup {"control_group"}]
    IN
    IF ~frame.hasDate THEN [s2 EXCEPT !.exception = "KeyError"]
    ELSE
    LET group(c) == IF c = "test" THEN test_group ELSE control_group
        filtered == [c \in Cohorts, q \in PeriodNames |->
                       filter_by_date(group(c), Window(q, start, end, per)[1],
                                      Window(q, start, end, per)[2])]
        totals == [c \in Cohorts, m \in Metrics, q \in PeriodNames |->
                     nansum(Column(filtered[c, q], m))]
        differences == [c \in Cohorts, m \in Metrics, b \in Baselines |->
                          calculate_differences(totals[c, m, "test_period"],
                                                totals[c, m, b])]
        p_values == [c \in Cohorts, b \in Baselines |->
                       calculate_p_value(Column(filtered[c, "test_period"], "Url Clicks"),
                                         Column(filtered[c, b], "Url Clicks"))]
        colored == [c \in Cohorts, m \in Metrics, b \in Baselines |->
                      color_metric(differences[c, m, b].relative_diff)]
        s3 == [s2 EXCEPT !.filtered = filtered, !.totals = totals,
                         !.differences = differences, !.p_values = p_values,
                         !.steps = @ \cup {"filter_by_date", "sum",
                                           "calculate_differences",
                                           "calculate_p_value"}]
    IN
    IF \E c \in Cohorts, m \in Metrics, b \in Baselines : colored[c, m, b].raised
    THEN [s3 EXCEPT !.exception = "TypeError"]
    ELSE [s3 EXCEPT !.summary = {<<c, m, b, colored[c, m, b].color>> :
                                    c \in Cohorts, m \in Metrics, b \in Baselines},
                    !.p_display = {<<c, b, format_p_value(p_values[c, b])>> :
                                    c \in Cohorts, b \in Baselines},
                    !.steps = @ \cup {"summary", "understand_your_data",
                                      "p_value_display"}]

-----------------------------------------------------------------------------
(* Inputs                                                                  *)

SeqsUpTo(S, n) == UNION {[1..k -> S] : k \in 0..n}

Mar1 == ymd2ord(2024, 3, 1)
Mar10 == ymd2ord(2024, 3, 10)
Feb29 == ymd2ord(2024, 2, 29)

TestPage == <<"/", "T">>
ControlPage == <<"/", "c">>

TestPatterns == {<<>>, <<"t">>, <<"(">>}
ControlPatterns == {<<>>, <<"c">>, <<"(">>}

SelectableDates == {Mar1, Mar10}

GridRows ==
    [Date : {Mar1}, page : {TestPage, ControlPage},
     clicks : 0..MaxClicks, impressions : {1}]

(* a row with an empty page cell, one with unparsable numbers and one with *)
(* an unparsable date                                                      *)
SpecialRows ==
    {[Date |-> Mar1, page |-> NullPage, clicks |-> 1, impressions |-> 1],
     [Date |-> Mar1, page |-> TestPage, clicks |-> BadCell, impressions |-> BadCell],
     [Date |-> BadCell, page |-> TestPage, clicks |-> 1, impressions |-> 1]}

DatedRows == GridRows \cup SpecialRows

(* a file without a Date column: the Date field of its rows is unused      *)
UndatedRows == {[r EXCEPT !.Date = BadCell] : r \in DatedRows}

(* two rows per page in the test, pre-test and previous-year windows of    *)
(* the test window 2024-03-01..2024-03-01                                  *)
FullRows ==
    LET dates == <<Mar1, Feb29, Mar1 - YearShift>>
        pages == <<TestPage, ControlPage>>
    IN [i \in 1..12 |->
          [Date |-> dates[((i - 1) \div 4) + 1],
           page |-> pages[(((i - 1) \div 2) % 2) + 1],
           clicks |-> ((i - 1) % 2) + 1,
           impressions |-> 10 * (((i - 1) % 2) + 1)]]

Files ==
    {[present |-> TRUE, hasDate |-> TRUE, rows |-> rs] :
        rs \in SeqsUpTo(DatedRows, MaxRows) \cup {FullRows}}
    \cup
    {[present |-> TRUE, hasDate |-> FALSE, rows |-> rs] :
        rs \in SeqsUpTo(UndatedRows, MaxRows)}

-----------------------------------------------------------------------------
(* The script: every interaction reruns it from the top, so the derived    *)
(* periods are recomputed and the output of an earlier Analyze is gone.    *)

NoCall == [fn |-> "none"]

AppInit ==
    /\ uploaded_file = NoFile
    /\ data = NoData
    /\ messages = {}
    /\ test_regex = <<>>
    /\ control_regex = <<>>
    /\ test_start = 0
    /\ test_end = 0
    /\ periods = NoPeriods
    /\ analysis = NoAnalysis

Init == AppInit /\ call = NoCall

(* st.file_uploader, lines 57-99; the date inputs start at today           *)
Upload(file, today) ==
    /\ ~uploaded_file.present
    /\ uploaded_file' = file
    /\ data' = load(file)
    /\ messages' = load_messages(file)
    /\ test_regex' = <<>>
    /\ control_regex' = <<>>
    /\ test_start' = today
    /\ test_end' = today
    /\ periods' = derive_periods(today, today)
    /\ analysis' = NoAnalysis
    /\ UNCHANGED call

SetTestRegex(regex) ==
    /\ uploaded_file.present
    /\ test_regex' = regex
    /\ analysis' = NoAnalysis
    /\ UNCHANGED <<uploaded_file, data, messages, control_regex, test_start,
                   test_end, periods, call>>

SetControlRegex(regex) ==
    /\ uploaded_file.present
    /\ control_regex' = regex
    /\ analysis' = NoAnalysis
    /\ UNCHANGED <<uploaded_file, data, messages, test_regex, test_start,
                   test_end, periods, call>>

SetTestStart(d) ==
    /\ uploaded_file.present
    /\ test_start' = d
    /\ periods' = derive_periods(d, test_end)
    /\ analysis' = NoAnalysis
    /\ UNCHANGED <<uploaded_file, data, messages, test_regex, control_regex,
                   test_end, call>>

SetTestEnd(d) ==
    /\ uploaded_file.present
    /\ test_end' = d
    /\ periods' = derive_periods(test_start, d)
    /\ analysis' = NoAnalysis
    /\ UNCHANGED <<uploaded_file, data, messages, test_regex, control_regex,
                   test_start, call>>

(* st.button("Analyze"), lines 101-272                                     *)
Analyze ==
    /\ uploaded_file.present
    /\ analysis' = run_analyze(data, test_regex, control_regex, test_start,
                               test_end, periods)
    /\ UNCHANGED <<uploaded_file, data, messages, test_regex, control_regex,
                   test_start, test_end, periods, call>>

Next ==
    \/ \E file \in Files, today \in SelectableDates : Upload(file, today)
    \/ \E regex \in TestPatterns : SetTestRegex(regex)
    \/ \E regex \in ControlPatterns : SetControlRegex(regex)
    \/ \E d \in SelectableDates : SetTestStart(d)
    \/ \E d \in SelectableDates : SetTestEnd(d)
    \/ Analyze

Spec == Init /\ [][Next]_vars

-----------------------------------------------------------------------------
(* The period derivation on its own: every test window whose start and end *)
(* lie in 2024-03-01 .. 2024-03-01 + MaxSpan days                          *)

PeriodDates == {Mar1 + k : k \in 0..MaxSpan}

InitPeriods ==
    /\ AppInit
    /\ \E s \in PeriodDates, e \in PeriodDates :
          call = [fn |-> "derive_periods", start |-> s, end |-> e,
                  done |-> FALSE, result |-> NoPeriods]

DerivePeriods ==
    /\ ~call.done
    /\ call' = [call EXCEPT !.done = TRUE,
                            !.result = derive_periods(call.start, call.end)]
    /\ UNCHANGED app_vars

SpecPeriods == InitPeriods /\ [][DerivePeriods]_vars

-----------------------------------------------------------------------------
(* calculate_differences on its own: totals in 0..MaxTotal and the totals  *)
(* 50 and 0                                                                *)

Totals == 0..MaxTotal \cup {50}

InitDiff ==
    /\ AppInit
    /\ \E c \in Totals, p \in Totals :
          call = [fn |-> "calculate_differences", current |-> c, previous |-> p,
                  done |-> FALSE,
                  result |-> [absolute_diff |-> 0, relative_diff |-> NoneDiff]]

CalculateDifferences ==
    /\ ~call.done
    /\ call' = [call EXCEPT !.done = TRUE,
                            !.result = calculate_differences(call.current, call.previous)]
    /\ UNCHANGED app_vars

SpecDiff == InitDiff /\ [][CalculateDifferences]_vars

-----------------------------------------------------------------------------
(* filter_by_date on its own: a cohort of a loaded file with a Date        *)
(* column, filtered once and then once more with the same window           *)

FilterDates == {Feb29 + k : k \in 0..MaxDays}

FilterFiles ==
    {[present |-> TRUE, hasDate |-> TRUE, rows |-> rs] :
        rs \in SeqsUpTo([Date : FilterDates \cup {BadCell}, page : {TestPage},
                         clicks : {1}, impressions : {1}], MaxRows)}

InitFilter ==
    /\ AppInit
    /\ \E file \in FilterFiles, s \in FilterDates, e \in FilterDates :
          call = [fn |-> "filter_by_date", cohort |-> load(file).rows,
                  given |-> load(file).rows, start |-> s, end |-> e,
                  applied |-> 0, result |-> <<>>, again |-> <<>>]

FilterByDate ==
    /\ call.applied = 0
    /\ call' = [call EXCEPT !.applied = 1,
                            !.result = filter_by_date(call.cohort, call.start, call.end)]
    /\ UNCHANGED app_vars

FilterByDateAgain ==
    /\ call.applied = 1
    /\ call' = [call EXCEPT !.applied = 2,
                            !.again = filter_by_date(call.result, call.start, call.end)]
    /\ UNCHANGED app_vars

NextFilter == FilterByDate \/ FilterByDateAgain

SpecFilter == InitFilter /\ [][NextFilter]_vars

-----------------------------------------------------------------------------
(* calculate_p_value and the display of its result on their own: two       *)
(* samples of at most MaxSample coerced click values                       *)

Samples == SeqsUpTo(0..MaxClicks \cup {NaN}, MaxSample)

InitPValue ==
    /\ AppInit
    /\ \E s1 \in Samples, s2 \in Samples :
          call = [fn |-> "calculate_p_value", sample1 |-> s1, sample2 |-> s2,
                  stage |-> "start", p_value |-> "", display |-> ""]

CalculatePValue ==
    /\ call.stage = "start"
    /\ call' = [call EXCEPT !.stage = "computed",
                            !.p_value = calculate_p_value(call.sample1, call.sample2)]
    /\ UNCHANGED app_vars

DisplayPValue ==
    /\ call.stage = "computed"
    /\ call' = [call EXCEPT !.stage = "displayed",
                            !.display = format_p_value(call.p_value)]
    /\ UNCHANGED app_vars

NextPValue == CalculatePValue \/ DisplayPValue

SpecPValue == InitPValue /\ [][NextPValue]_vars

-----------------------------------------------------------------------------
(* Properties                                                              *)

Occurrences(rows, i) == Cardinality({k \in 1..Len(rows) : rows[k].idx = i})

(* C1: for every test window with test_start <= test_end, the derived      *)
(* pre-test window ends the day before test_start and its end minus its    *)
(* start equals test_end minus test_start.                                 *)
C1_PreTestWindow ==
    (call.fn = "derive_periods" /\ call.done /\ call.start <= call.end)
    => /\ call.result.pre_test_end + 1 = call.start
       /\ call.result.pre_test_end - call.result.pre_test_start
            = call.end - call.start

C1_Witness ==
    /\ call.fn = "derive_periods" /\ call.done
    /\ call.start < call.end
    /\ call.result.derived
    /\ call.result.pre_test_start < call.result.pre_test_end

C2_Scenario ==
    /\ call.fn = "derive_periods" /\ call.done
    /\ call.start = ymd2ord(2024, 3, 1)
    /\ call.end = ymd2ord(2024, 3, 10)

(* C2 as stated: for the test window 2024-03-01..2024-03-10 the            *)
(* year-over-year window is 2023-03-01..2023-03-10 and the pre-test window *)
(* is 2024-02-20..2024-02-29.                                              *)
C2_Original ==
    C2_Scenario
    => /\ call.result.prev_year_test_start = ymd2ord(2023, 3, 1)
       /\ call.result.prev_year_test_end = ymd2ord(2023, 3, 10)
       /\ call.result.pre_test_start = ymd2ord(2024, 2, 20)
       /\ call.result.pre_test_end = ymd2ord(2024, 2, 29)

(* C2 amended: for the test window 2024-03-01..2024-03-10 the              *)
(* year-over-year window is 2023-03-02..2023-03-11 (365 days back, across  *)
(* 2024-02-29) and the pre-test window is 2024-02-20..2024-02-29.          *)
C2_Amended ==
    C2_Scenario
    => /\ call.result.prev_year_test_start = ymd2ord(2023, 3, 2)
       /\ call.result.prev_year_test_end = ymd2ord(2023, 3, 11)
       /\ call.result.pre_test_start = ymd2ord(2024, 2, 20)
       /\ call.result.pre_test_end = ymd2ord(2024, 2, 29)

C2_Witness ==
    /\ C2_Scenario
    /\ call.result.derived
    /\ call.end - call.result.prev_year_test_end = YearShift

C4_InvalidRange ==
    (uploaded_file.present /\ test_start > test_end)
    => /\ ~periods.derived
       /\ analysis.ran => (analysis.exception = "InvalidRangeError"
                           /\ analysis.steps = {})

(* C5: when the uploaded table has no Date column, the schema error is     *)
(* reported, the numeric coercion does not run, and an Analyze runs no     *)
(* step and raises no exception.                                           *)
C5_SchemaErrorHalts ==
    (data.loaded /\ ~data.hasDate)
    => /\ "error: The CSV file must contain a 'Date' column" \in messages
       /\ ~data.numeric
       /\ analysis.ran => (analysis.exception = "none" /\ analysis.steps = {})

(* C6: calculate_differences(current, previous) returns absolute_diff =    *)
(* current - previous, relative_diff = absolute_diff / previous * 100 when *)
(* previous is not 0, and None when previous is 0.                         *)
C6_Differences ==
    (call.fn = "calculate_differences" /\ call.done)
    => /\ call.result.absolute_diff = call.current - call.previous
       /\ call.previous # 0 =>
             /\ ~call.result.relative_diff.isNone
             /\ call.result.relative_diff.den # 0
             /\ call.result.relative_diff.num * call.previous
                  = (call.current - call.previous) * 100
                      * call.result.relative_diff.den
       /\ call.previous = 0 => call.result.relative_diff = NoneDiff

C6_Witness ==
    /\ call.fn = "calculate_differences" /\ call.done
    /\ call.previous = 0 /\ call.current = 50
    /\ call.result.absolute_diff = 50
    /\ call.result.relative_diff.isNone

(* C7: when some (cohort, metric, baseline period) total is 0, the Analyze *)
(* pass runs to completion: no step after calculate_differences raises and *)
(* the summary is written.                                                 *)
C7_ZeroBaselineCompletes ==
    (/\ analysis.ran
     /\ "calculate_differences" \in analysis.steps
     /\ \E c \in Cohorts, m \in Metrics, b \in Baselines :
           analysis.totals[c, m, b] = 0)
    => /\ analysis.exception = "none"
       /\ "summary" \in analysis.steps
       /\ "p_value_display" \in analysis.steps

(* the values of a sample that are numbers                                 *)
Observations(sample) == SelectSeq(sample, LAMBDA v : v # NaN)

Degenerate(sample1, sample2) ==
    \/ Len(Observations(sample1)) < 2
    \/ Len(Observations(sample2)) < 2
    \/ /\ zero_variance(Observations(sample1))
       /\ zero_variance(Observations(sample2))

(* C8: when either sample has fewer than 2 observations or both have zero  *)
(* variance, the significance step yields a "not computable" result (the   *)
(* NaN the code can return is counted as one); in every other case the     *)
(* result is a p-value in [0,1]; the display raises nothing.               *)
C8_PValue ==
    (call.fn = "calculate_p_value" /\ call.stage # "start")
    => /\ Degenerate(call.sample1, call.sample2) => call.p_value = "nan"
       /\ ~Degenerate(call.sample1, call.sample2) => call.p_value \in {"0.0", "p"}
       /\ call.stage = "displayed" => call.display # ""

(* C9: when the test pattern or the control pattern is not a valid regular *)
(* expression, Analyze ends in a PatternError.                             *)
C9_PatternError ==
    (analysis.ran /\ (~re_valid(test_regex) \/ ~re_valid(control_regex)))
    => analysis.exception = "PatternError"

InWindow(r) == r.Date # NaT /\ call.start <= r.Date /\ r.Date <= call.end

(* C10: filter_by_date returns exactly the rows of the cohort whose date   *)
(* is not null and lies in [start, end], both bounds included, in their    *)
(* order; the cohort is left as it was; filtering the result again with    *)
(* the same window returns the same rows.                                  *)
C10_FilterByDate ==
    (call.fn = "filter_by_date" /\ call.applied >= 1)
    => /\ \A i \in 1..Len(call.cohort) :
             Occurrences(call.result, i) = (IF InWindow(call.cohort[i]) THEN 1 ELSE 0)
       /\ \A k \in 1..Len(call.result) :
             /\ call.result[k].idx \in 1..Len(call.cohort)
             /\ call.result[k] = call.cohort[call.result[k].idx]
       /\ \A j, k \in 1..Len(call.result) :
             j < k => call.result[j].idx < call.result[k].idx
       /\ call.cohort = call.given
       /\ call.applied = 2 => call.again = call.result

C10_Witness ==
    /\ call.fn = "filter_by_date" /\ call.applied = 2
    /\ call.start < call.end
    /\ \E i \in 1..Len(call.cohort) : call.cohort[i].Date = NaT
    /\ \E k \in 1..Len(call.result) : call.result[k].Date = call.end
    /\ Len(call.again) = 1
    /\ Len(call.cohort) = 2

====
